---- MODULE Spec2Model ----
(***************************************************************************)
(* State-machine model of src/main.py: the Internet Archive orchestrator   *)
(* (download_all_internet_archive), the GitHub OCR orchestrator            *)
(* (download_all_github, with its worker pool) and the PDF extraction run  *)
(* (extract_all_pdfs).  One behaviour is a sequence of process invocations *)
(* with the same command-line flag; the files on disk persist between the  *)
(* invocations, everything else is rebuilt by each invocation.             *)
(***************************************************************************)
EXTENDS Integers, Sequences, FiniteSets, TLC

\* ------------------------------------------------------------------ bounds
\* Most manifest entries the archive world holds, over all sources.
MaxItems == 2
\* Most calls (metadata calls and fetches) that fail in one run.
MaxFailures == 1
\* Most PDFs under documents/internet_archive.
MaxPdfs == 2
\* Most entries in the listing of a GitHub folder.
MaxRecords == 2
\* Most lines of the texts search_all reads that are enumerated in full.
MaxLines == 2
\* Most entity types of the records whose rendering is enumerated.
MaxEntities == 2

\* ------------------------------------------------------- program constants
\* abs(dest_path.stat().st_size - expected_size) < 1024
Tolerance == 1024

\* ------------------------------------------------------------------ values
\* dest_path.exists() is false: no file at the path.
Absent == -1
\* pdf.get("size", 0) finds no size field in the manifest entry.
NoSize == -2
None == "none"

Zero == [downloaded |-> 0, skipped |-> 0, failed |-> 0]

Bump(st, field) == [st EXCEPT ![field] = @ + 1]

AddStats(a, b) ==
  [downloaded |-> a.downloaded + b.downloaded,
   skipped    |-> a.skipped + b.skipped,
   failed     |-> a.failed + b.failed]

Abs(x) == IF x < 0 THEN -x ELSE x

\* ------------------------------------------------- archive: configuration
\* IA_SOURCES in declaration order (a dict iterates in insertion order).
IA_SOURCES ==
  << [key |-> "giuffre_maxwell",        priority |-> 1],
     [key |-> "house_oversight_estate", priority |-> 2],
     [key |-> "black_book_v2",          priority |-> 0],
     [key |-> "phone_book",             priority |-> 0],
     [key |-> "epstein_estate_alt",     priority |-> 3] >>

Keys == { IA_SOURCES[i].key : i \in 1..Len(IA_SOURCES) }

DeclIndex(k) == CHOOSE i \in 1..Len(IA_SOURCES) : IA_SOURCES[i].key = k

PriorityOf(k) == IA_SOURCES[DeclIndex(k)].priority

\* list.sort is stable: a key goes behind every key whose priority is not
\* larger than its own.
RECURSIVE InsertStable(_, _)
InsertStable(s, k) ==
  IF s = <<>> THEN <<k>>
  ELSE IF PriorityOf(Head(s)) <= PriorityOf(k)
       THEN <<Head(s)>> \o InsertStable(Tail(s), k)
       ELSE <<k>> \o s

RECURSIVE SortPrefix(_)
SortPrefix(n) ==
  IF n = 0 THEN <<>> ELSE InsertStable(SortPrefix(n - 1), IA_SOURCES[n].key)

DeclarationOrder == [i \in 1..Len(IA_SOURCES) |-> IA_SOURCES[i].key]

\* sorted(IA_SOURCES.keys(), key=lambda k: IA_SOURCES[k]["priority"])
sorted_sources == SortPrefix(Len(IA_SOURCES))

\* ------------------------------------------------------ archive: the remote
\* A file name is <<stem, extension>>.
PdfNames == { <<"a", "pdf">>, <<"b", "PDF">> }
OtherNames == { <<"n", "txt">> }

LowerExt(e) == IF e = "PDF" THEN "pdf" ELSE e

\* f.get("name", "").lower().endswith(".pdf")
IsPdfName(name) == LowerExt(name[2]) = "pdf"

\* Declared sizes of a manifest entry (NoSize: the entry has no size field)
\* and the sizes of the content the download endpoint serves.
DeclaredSizes == { NoSize, 1024 }
ContentSizes == { 1, 2048 }

\* What a download that breaks off while streaming leaves on disk.
PartialSizes(content) == { s \in { 0, 1, 2047 } : s < content }

Entries ==
  [name : PdfNames, size : DeclaredSizes, content : ContentSizes]
  \cup [name : OtherNames, size : { NoSize }, content : { 1 }]

\* The place of a name in a manifest, which lists its files in name order.
NameRank(name) ==
  CASE name = <<"a", "pdf">> -> 1
    [] name = <<"n", "txt">> -> 2
    [] name = <<"b", "PDF">> -> 3

\* A world places at most MaxItems entries, all on one source (the other
\* sources have an empty file list), in name order, no name twice.
Placements ==
  UNION { { p \in [1..n -> Keys \X Entries] :
              \A i \in 1..n : \A j \in 1..n :
                 i < j => /\ p[i][1] = p[j][1]
                          /\ NameRank(p[i][2].name) < NameRank(p[j][2].name) }
          : n \in 0..MaxItems }

RECURSIVE ManifestOf(_, _)
ManifestOf(p, k) ==
  IF p = <<>> THEN <<>>
  ELSE (IF Head(p)[1] = k THEN <<Head(p)[2]>> ELSE <<>>) \o ManifestOf(Tail(p), k)

ItemIds == Keys \X (1..MaxItems)

IA_Paths == Keys \X PdfNames

VARIABLES
  cmd,        \* the flag of the invocations: "ia", "gh" or "ex"
  pc,         \* where the control thread is
  remote,     \* archive world: source key -> the "files" of its metadata
  ia_fs,      \* documents/internet_archive: path -> size, or Absent
  srcIdx,     \* position in sorted_sources
  pdf_files,  \* the PDFs of the source being synced
  itemIdx,    \* position in pdf_files
  stats,      \* stats of the source being synced
  total,      \* total of download_all_internet_archive
  returned,   \* <<what this invocation returned>>, <<>> until it returns
  calls,      \* history: the metadata calls of this run, [key, ok]
  fetched,    \* history: item -> how its download_file call of this run ended
  outcome,    \* history: item -> its outcome in this run
  prevRun,    \* history: None, "clean" or "failures": the invocation before
  pymupdf,    \* PYMUPDF_AVAILABLE in this invocation
  pdf_dir,    \* documents/internet_archive exists
  pdf_tree,   \* the paths of the PDFs under it
  ex_fs,      \* extracted_text/pdf_text: stem -> <<text file>>, <<>> if none
  ex_fs0,     \* history: ex_fs when this run started
  report,     \* extracted_text/interesting_finds.json: <<list>>, <<>> if none
  pdfs,       \* the listing extract_all_pdfs walks
  exIdx,      \* position in pdfs
  ex_stats,   \* stats of extract_all_pdfs
  finds,      \* interesting_finds
  ex_log,     \* history: position -> what its pass read and how it ended
  gh_remote,  \* GitHub world: the folder that holds records, and their names
  analyses,   \* documents/github_ocr/analyses.json: size, or Absent
  gh_fs,      \* github_ocr/<folder>: txt name -> <<text file>>, <<>> if none
  folderIdx,  \* position in GITHUB_FOLDERS
  json_files, \* the records of the folder being synced
  max_workers, \* the max_workers argument of the download_github_folder call
  w,          \* the download_one call of each record: where it is, its result
  collected,  \* the futures as_completed has handed to the control thread
  gh_stats,   \* stats of the folder being synced
  gh_total,   \* total of download_all_github
  gh_faults,  \* history: the calls of this run that failed
  gh_calls,   \* history: the listing calls and analyses.json fetches of this run, counted
  gh_fs0,     \* history: gh_fs when this run started
  s_term,     \* search_all: the term
  s_files,    \* the text files the walks yield
  s_idx,      \* position in the walks
  results,    \* results of search_all
  s_log,      \* history: what each file of the walk held when it was read
  json_data,  \* download_one: the record get_json returned
  lines       \* download_one: the lines it built from the record

ia_vars == << remote, ia_fs, srcIdx, pdf_files, itemIdx, stats, total,
              calls, fetched, outcome >>

ex_vars == << pymupdf, pdf_dir, pdf_tree, ex_fs, ex_fs0, report, pdfs, exIdx, ex_stats,
              finds, ex_log >>

gh_vars == << gh_remote, analyses, gh_fs, folderIdx, json_files, w, collected,
             gh_stats, gh_total, gh_faults, gh_calls, gh_fs0, max_workers >>

se_vars == << s_term, s_files, s_idx, results, s_log, json_data, lines >>

vars == << cmd, pc, returned, prevRun, ia_vars, ex_vars, gh_vars, se_vars >>

NoOutcomes == [id \in ItemIds |-> None]

\* ------------------------------------------------------------- download_file
\* Where a fetch can break, and the exception it raises there.
FailPoints == { "ok", "mkdir", "connect", "status", "open", "stream" }

ExceptionAt(fp) ==
  CASE fp = "ok"      -> None
    [] fp = "mkdir"   -> "OSError"
    [] fp = "connect" -> "ConnectionError"
    [] fp = "status"  -> "HTTPError"
    [] fp = "open"    -> "OSError"
    [] fp = "stream"  -> "ChunkedEncodingError"

\* What is on disk at dest when the fetch ends: open(dest, 'wb') truncates,
\* the chunks are appended; a fetch that breaks before the open touches nothing.
FilesAfter(fp, cur, content) ==
  CASE fp = "ok"     -> { content }
    [] fp = "stream" -> PartialSizes(content)
    [] OTHER         -> { cur }

CaughtNetworkOnly(exc) ==
  exc \in { "ConnectionError", "HTTPError", "ChunkedEncodingError" }

\* except Exception as e: every exception a fetch raises is an Exception.
Caught(exc) ==
  exc \in { "OSError", "ConnectionError", "HTTPError", "ChunkedEncodingError" }

\* The results download_file(url, dest) can have: what it returns, what it
\* leaves at dest, and whether an exception leaves it.
DownloadFile(cur, content) ==
  { [ok     |-> ExceptionAt(x[1]) = None,
     file   |-> x[2],
     raised |-> ExceptionAt(x[1]) # None /\ ~Caught(ExceptionAt(x[1])),
     at     |-> x[1]] :
    x \in UNION { { <<q, g>> : g \in FilesAfter(q, cur, content) } : q \in FailPoints } }

\* ------------------------------------------------ download_from_internet_archive
\* int(pdf.get("size", 0)); cur is the size on disk, which it does not read.
ExpectedSize(pdf, cur) == IF pdf.size = NoSize THEN 0 ELSE pdf.size

CompleteInclusive(actual, expected) == Abs(actual - expected) <= Tolerance

\* abs(dest_path.stat().st_size - expected_size) < 1024
Complete(actual, expected) == Abs(actual - expected) < Tolerance

\* if dest_path.exists(): if abs(...) < 1024: the item is skipped
ExistsAndComplete(cur, pdf) ==
  cur # Absent /\ Complete(cur, ExpectedSize(pdf, cur))

CurKey == sorted_sources[srcIdx]

CurPdf == pdf_files[itemIdx]

CurDest == << CurKey, CurPdf.name >>

CurId == << CurKey, itemIdx >>

\* pdf_files = [f for f in files if f.get("name", "").lower().endswith(".pdf")]
FilterPdfs(files) == SelectSeq(files, LAMBDA f : IsPdfName(f.name))

\* The calls of this run that have failed so far.
IA_Failures == total.failed + (IF pc = "ia_item" THEN stats.failed ELSE 0)

IA_Start ==
  /\ cmd = "ia" /\ pc = "idle"
  /\ pc' = "ia_list"
  /\ srcIdx' = 1
  /\ total' = Zero
  /\ stats' = Zero
  /\ pdf_files' = <<>>
  /\ itemIdx' = 1
  /\ calls' = <<>>
  /\ fetched' = NoOutcomes
  /\ outcome' = NoOutcomes
  /\ returned' = <<>>
  /\ prevRun' = IF returned = <<>> THEN None
                ELSE IF returned[1].failed = 0 THEN "clean" ELSE "failures"
  /\ UNCHANGED << cmd, remote, ia_fs, ex_vars, gh_vars, se_vars >>

IA_ListFailAborts ==
  /\ pc = "ia_list" /\ srcIdx <= Len(sorted_sources)
  /\ IA_Failures < MaxFailures
  /\ calls' = Append(calls, [key |-> CurKey, ok |-> FALSE])
  /\ total' = AddStats(total, [Zero EXCEPT !.failed = 1])
  /\ srcIdx' = Len(sorted_sources) + 1
  /\ UNCHANGED << cmd, pc, remote, ia_fs, pdf_files, itemIdx, stats, returned,
                  fetched, outcome, prevRun, ex_vars, gh_vars, se_vars >>

\* get_json returned None: return {"downloaded": 0, "skipped": 0, "failed": 1},
\* which download_all_internet_archive adds to its total.
IA_ListFail ==
  /\ pc = "ia_list" /\ srcIdx <= Len(sorted_sources)
  /\ IA_Failures < MaxFailures
  /\ calls' = Append(calls, [key |-> CurKey, ok |-> FALSE])
  /\ total' = AddStats(total, [Zero EXCEPT !.failed = 1])
  /\ srcIdx' = srcIdx + 1
  /\ UNCHANGED << cmd, pc, remote, ia_fs, pdf_files, itemIdx, stats, returned,
                  fetched, outcome, prevRun, ex_vars, gh_vars, se_vars >>

\* get_json returned the metadata; a source with no PDF returns zeros.
IA_ListOk ==
  /\ pc = "ia_list" /\ srcIdx <= Len(sorted_sources)
  /\ calls' = Append(calls, [key |-> CurKey, ok |-> TRUE])
  /\ LET found == FilterPdfs(remote[CurKey]) IN
       IF found = <<>>
       THEN /\ srcIdx' = srcIdx + 1
            /\ UNCHANGED << pc, pdf_files, itemIdx, stats >>
       ELSE /\ pc' = "ia_item"
            /\ pdf_files' = found
            /\ itemIdx' = 1
            /\ stats' = Zero
            /\ UNCHANGED srcIdx
  /\ UNCHANGED << cmd, remote, ia_fs, total, returned, fetched, outcome, prevRun,
                  ex_vars, gh_vars, se_vars >>

\* The end of one pass of "for pdf in pdf_files": the next item, or return
\* stats, which the caller adds to its total before the next source.
IA_NextItem(st) ==
  IF itemIdx < Len(pdf_files)
  THEN /\ itemIdx' = itemIdx + 1
       /\ stats' = st
       /\ UNCHANGED << pc, srcIdx, total, pdf_files >>
  ELSE /\ pc' = "ia_list"
       /\ srcIdx' = srcIdx + 1
       /\ total' = AddStats(total, st)
       /\ stats' = st
       /\ UNCHANGED << itemIdx, pdf_files >>

IA_Skip ==
  /\ pc = "ia_item"
  /\ ExistsAndComplete(ia_fs[CurDest], CurPdf)
  /\ outcome' = [outcome EXCEPT ![CurId] = "skipped"]
  /\ IA_NextItem(Bump(stats, "skipped"))
  /\ UNCHANGED << cmd, remote, ia_fs, returned, calls, fetched, prevRun, ex_vars, gh_vars, se_vars >>

IA_Download ==
  /\ pc = "ia_item"
  /\ ~ExistsAndComplete(ia_fs[CurDest], CurPdf)
  /\ \E r \in DownloadFile(ia_fs[CurDest], CurPdf.content) :
       /\ r.ok \/ IA_Failures < MaxFailures
       /\ ia_fs' = [ia_fs EXCEPT ![CurDest] = r.file]
       /\ fetched' = [fetched EXCEPT ![CurId] = IF r.ok THEN "ok" ELSE ExceptionAt(r.at)]
       /\ IF r.raised
          THEN /\ pc' = "crashed"
               /\ UNCHANGED << srcIdx, pdf_files, itemIdx, stats, total, outcome >>
          ELSE /\ outcome' = [outcome EXCEPT
                               ![CurId] = IF r.ok THEN "downloaded" ELSE "failed"]
               /\ IA_NextItem(Bump(stats, IF r.ok THEN "downloaded" ELSE "failed"))
  /\ UNCHANGED << cmd, remote, returned, calls, prevRun, ex_vars, gh_vars, se_vars >>

\* download_all_internet_archive returns total; the process ends.
IA_Return ==
  /\ pc = "ia_list" /\ srcIdx > Len(sorted_sources)
  /\ pc' = "idle"
  /\ returned' = << total >>
  /\ UNCHANGED << cmd, prevRun, ia_vars, ex_vars, gh_vars, se_vars >>

NextIA == IA_Start \/ IA_ListFail \/ IA_ListOk \/ IA_Skip \/ IA_Download \/ IA_Return

\* Without the requests library download_file calls
\* urllib.request.urlretrieve(url, dest), which is given no timeout: when the
\* endpoint never answers, the call never returns and the run stays in it.
IA_DownloadBlocks ==
  /\ pc = "ia_item"
  /\ ~ExistsAndComplete(ia_fs[CurDest], CurPdf)
  /\ pc' = "blocked"
  /\ fetched' = [fetched EXCEPT ![CurId] = "blocked"]
  /\ UNCHANGED << cmd, remote, ia_fs, srcIdx, pdf_files, itemIdx, stats, total, outcome,
                  returned, calls, prevRun, ex_vars, gh_vars, se_vars >>

\* The orchestrator in a process where REQUESTS_AVAILABLE is False.
NextUrllib == NextIA \/ IA_DownloadBlocks

\* ---------------------------------------------------- extraction: the inputs
\* A PDF path is <<stem, extension>>; with_suffix(".txt") keeps the stem.
PdfPaths == { <<"a", "pdf">>, <<"b", "pdf">>, <<"a", "PDF">> }

Stems == { p[1] : p \in PdfPaths }

\* A text is a sequence of tokens; the tokens the two patterns match in.
Phones ==
  << "555-000-0001", "555.000.0002", "5550000003", "555-000-0004",
     "555-000-0005", "555-000-0006" >>

Emails == << "a@b.co", "c@d.org", "e@f.net", "g@h.io", "i@j.com", "k@l.edu" >>

Range(seq) == { seq[i] : i \in 1..Len(seq) }

\* re.findall(r'\b\d{3}[-.]?\d{3}[-.]?\d{4}\b', token): the ten digits in
\* front of an @ match as well; seven digits, or eleven, do not.
PhoneMatches(tok) ==
  IF tok \in Range(Phones) THEN << tok >>
  ELSE IF tok = "5550000007@x.co" THEN << "5550000007" >>
  ELSE << >>

\* re.findall(r'\b[A-Za-z0-9._%+-]+@[A-Za-z0-9.-]+\.[A-Z|a-z]{2,}\b', token):
\* an address without a dotted domain does not match.
EmailMatches(tok) ==
  IF tok \in Range(Emails) \/ tok = "5550000007@x.co" THEN << tok >> ELSE << >>

RECURSIVE FindAll(_, _)
FindAll(Matches(_), text) ==
  IF text = << >> THEN << >>
  ELSE Matches(Head(text)) \o FindAll(Matches, Tail(text))

Texts ==
  { << "hello", "555-0001", "55500000031", "a@b" >>,
    << "a@b.co" >> \o Phones,
    Emails,
    << "5550000007@x.co" >> }

Corrupt == [kind |-> "corrupt"]

\* What a PDF can hold when it is read: the binary documents change between
\* and during the runs (an archive sync downloads, replaces, truncates them).
Docs == { Corrupt } \cup { [kind |-> "pdf", text |-> t] : t \in Texts }

Trees == { t \in SUBSET PdfPaths : Cardinality(t) <= MaxPdfs }

\* list(pdf_dir.rglob("*.pdf")) + list(pdf_dir.rglob("*.PDF")), each walk in
\* name order.
Glob(tree) ==
  LET Has(p) == p \in tree
      lower == SelectSeq(<< <<"a", "pdf">>, <<"b", "pdf">> >>, Has)
      upper == SelectSeq(<< <<"a", "PDF">> >>, Has)
  IN  lower \o upper

\* ------------------------------------------------------------ extract_pdf_text
\* How the pdftotext call of the fallback can end.
ToolRuns == { "ran", "missing", "timeout" }

\* len(p.strip()) < 50 for the one page of a text: tokens are about ten
\* characters each.
BlankPages(text) == IF Len(text) < 5 THEN "1" ELSE "0"

\* extract_pdf_text(pdf_path): the text and the metadata it returns, whether
\* it raises instead, and whether the extraction failed.  With the library,
\* fitz.open raises on a file it cannot read.  Without it, a pdftotext that
\* is missing or times out is caught and returned as the text "Error: ...",
\* and a pdftotext that ran returns its stdout, empty for a file it cannot
\* read.
ExtractPdfText(doc, lib, tool) ==
  IF lib
  THEN IF doc.kind = "corrupt"
       THEN [raised |-> TRUE, text |-> << >>, pages |-> "unknown",
             blank |-> "unknown", error |-> TRUE]
       ELSE [raised |-> FALSE, text |-> << "--- PAGE 1 ---" >> \o doc.text,
             pages |-> "1", blank |-> BlankPages(doc.text), error |-> FALSE]
  ELSE IF tool # "ran"
       THEN [raised |-> FALSE, text |-> << "Error:", tool >>,
             pages |-> "unknown", blank |-> "unknown", error |-> TRUE]
       ELSE IF doc.kind = "corrupt"
            THEN [raised |-> FALSE, text |-> << >>, pages |-> "1",
                  blank |-> "1", error |-> TRUE]
            ELSE [raised |-> FALSE, text |-> doc.text, pages |-> "1",
                  blank |-> BlankPages(doc.text), error |-> FALSE]

\* ------------------------------------------------------------ extract_all_pdfs
Take(seq, n) == SubSeq(seq, 1, IF Len(seq) < n THEN Len(seq) ELSE n)

FindingsNoBreak(path, text) ==
  LET phones == FindAll(PhoneMatches, text)
      emails == FindAll(EmailMatches, text)
  IN  (IF phones # << >>
       THEN << [file |-> path, type |-> "phone numbers", samples |-> Take(phones, 5)] >>
       ELSE << >>)
      \o (IF emails # << >>
          THEN << [file |-> path, type |-> "emails", samples |-> Take(emails, 5)] >>
          ELSE << >>)

\* for pattern, desc in patterns: the entries one file adds to
\* interesting_finds; the loop breaks at the first pattern that matches.
Findings(path, text) ==
  LET phones == FindAll(PhoneMatches, text)
      emails == FindAll(EmailMatches, text)
  IN  IF phones # << >>
      THEN << [file |-> path, type |-> "phone numbers", samples |-> Take(phones, 5)] >>
      ELSE IF emails # << >>
      THEN << [file |-> path, type |-> "emails", samples |-> Take(emails, 5)] >>
      ELSE << >>

\* What the five writes of the with-block put in the text file.
TextFile(path, r) ==
  [source |-> path, pages |-> r.pages, blank |-> r.blank, text |-> r.text]

\* A text file whose writes broke off after open(txt_path, 'w').
PartialTextFile == [source |-> << >>, pages |-> "", blank |-> "", text |-> << >>]

ZeroEx == [processed |-> 0, skipped |-> 0, failed |-> 0]

NoLog == [i \in 1..MaxPdfs |-> [text |-> << >>, lib |-> TRUE, extract |-> None, pass |-> None]]

CurPath == pdfs[exIdx]

AlwaysMissing(stem) == FALSE

\* txt_path.exists()
TxtExists(stem) == ex_fs[stem] # << >>

EX_Failures == ex_stats.failed

EX_Start ==
  /\ cmd = "ex" /\ pc = "idle"
  /\ pymupdf' \in BOOLEAN
  /\ prevRun' = IF returned = <<>> THEN None
                ELSE IF returned[1].failed = 0 THEN "clean" ELSE "failures"
  /\ ex_stats' = ZeroEx
  /\ finds' = << >>
  /\ ex_log' = NoLog
  /\ exIdx' = 1
  /\ ex_fs0' = ex_fs
  /\ IF pdf_dir
     THEN /\ pc' = "ex_loop"
          /\ pdfs' = Glob(pdf_tree)
          /\ returned' = << >>
     ELSE /\ pc' = "idle"
          /\ pdfs' = << >>
          /\ returned' = << ZeroEx >>
  /\ UNCHANGED << cmd, pdf_dir, pdf_tree, ex_fs, report, ia_vars, gh_vars, se_vars >>

\* if txt_path.exists(): skipped
EX_Skip ==
  /\ pc = "ex_loop" /\ exIdx <= Len(pdfs)
  /\ TxtExists(CurPath[1])
  /\ ex_stats' = [ex_stats EXCEPT !.skipped = @ + 1]
  /\ ex_log' = [ex_log EXCEPT ![exIdx] = [@ EXCEPT !.pass = "skipped"]]
  /\ exIdx' = exIdx + 1
  /\ UNCHANGED << cmd, pc, returned, prevRun, pymupdf, pdf_dir, pdf_tree, ex_fs,
                  ex_fs0, report, pdfs, finds, ia_vars, gh_vars, se_vars >>

\* The try block of one pass: extract, write the text file, count it, scan
\* it for the patterns; any exception counts the file as failed.
EX_Extract ==
  /\ pc = "ex_loop" /\ exIdx <= Len(pdfs)
  /\ ~TxtExists(CurPath[1])
  /\ \E doc \in Docs, tool \in ToolRuns, wr \in { "ok", "open", "write" } :
       LET r == ExtractPdfText(doc, pymupdf, tool)
           failed == r.raised \/ wr # "ok"
       IN  /\ pymupdf => tool = "ran"
           /\ (r.error \/ wr # "ok") => EX_Failures < MaxFailures
           /\ r.raised => wr = "ok"
           /\ ex_fs' = [ex_fs EXCEPT ![CurPath[1]] =
                          IF r.raised \/ wr = "open" THEN << >>
                          ELSE IF wr = "write" THEN << PartialTextFile >>
                          ELSE << TextFile(CurPath, r) >>]
           /\ ex_stats' = IF failed THEN [ex_stats EXCEPT !.failed = @ + 1]
                          ELSE [ex_stats EXCEPT !.processed = @ + 1]
           /\ finds' = IF failed THEN finds ELSE finds \o Findings(CurPath, r.text)
           /\ ex_log' = [ex_log EXCEPT ![exIdx] =
                           [text    |-> r.text,
                            lib     |-> pymupdf,
                            extract |-> IF r.error THEN "error" ELSE "ok",
                            pass    |-> IF failed THEN "failed" ELSE "processed"]]
  /\ exIdx' = exIdx + 1
  /\ UNCHANGED << cmd, pc, returned, prevRun, pymupdf, pdf_dir, pdf_tree, ex_fs0,
                  report, pdfs, ia_vars, gh_vars, se_vars >>

\* The findings of the run are added to the report on disk.
EX_FinishAppend ==
  /\ pc = "ex_loop" /\ exIdx > Len(pdfs)
  /\ report' = IF finds # << >>
               THEN << (IF report = << >> THEN << >> ELSE report[1]) \o finds >>
               ELSE report
  /\ returned' = << ex_stats >>
  /\ pc' = "idle"
  /\ ex_fs0' = ex_fs
  /\ UNCHANGED << cmd, prevRun, pymupdf, pdf_dir, pdf_tree, ex_fs, pdfs, exIdx,
                  ex_stats, finds, ex_log, ia_vars, gh_vars, se_vars >>

\* After the loop: if interesting_finds: json.dump(...); return stats.
EX_Finish ==
  /\ pc = "ex_loop" /\ exIdx > Len(pdfs)
  /\ report' = IF finds # << >> THEN << finds >> ELSE report
  /\ returned' = << ex_stats >>
  /\ pc' = "idle"
  /\ ex_fs0' = ex_fs
  /\ UNCHANGED << cmd, prevRun, pymupdf, pdf_dir, pdf_tree, ex_fs, pdfs, exIdx,
                  ex_stats, finds, ex_log, ia_vars, gh_vars, se_vars >>

\* Between two extraction runs an archive sync adds PDFs, or the user
\* removes some.
EX_SourceChange ==
  /\ cmd = "ex" /\ pc = "idle"
  /\ pdf_dir' = TRUE
  /\ pdf_tree' \in Trees
  /\ pdf_tree' # pdf_tree \/ ~pdf_dir
  /\ UNCHANGED << cmd, pc, returned, prevRun, pymupdf, ex_fs, ex_fs0, report, pdfs, exIdx,
                  ex_stats, finds, ex_log, ia_vars, gh_vars, se_vars >>

NextEX == EX_Start \/ EX_Skip \/ EX_Extract \/ EX_Finish \/ EX_SourceChange

\* ------------------------------------------------------ GitHub: the remote
\* GITHUB_FOLDERS = IMAGES001 .. IMAGES012
NumFolders == 12

\* max_workers: int = 10
MaxWorkers == 10

\* The content lengths analyses.json is served with.
AnalysesSizes == { 1 }

\* The folders that may hold records; the others list as empty.
PopulatedFolders == { 2 }

\* A record name is a sequence of parts, ".json" and ".txt" being parts.
RecordNames ==
  << <<"a", ".json">>, <<"r", ".md">>, <<"a", ".txt", ".json">>,
     <<"a", ".json", ".json">> >>

\* f["name"].endswith(".json")
EndsWithJson(name) == name[Len(name)] = ".json"

\* filename.replace(".json", ".txt"): every occurrence is replaced.
TxtName(name) == [i \in 1..Len(name) |-> IF name[i] = ".json" THEN ".txt" ELSE name[i]]

TxtNames == { TxtName(n) : n \in { m \in Range(RecordNames) : EndsWithJson(m) } }

\* A folder listing: at most MaxRecords names, in the order of RecordNames.
Listings ==
  { SelectSeq(RecordNames, LAMBDA n : n \in chosen) :
      chosen \in { c \in SUBSET Range(RecordNames) : Cardinality(c) <= MaxRecords } }

\* What download_url serves when it is fetched: the records change on the
\* remote at any time.  A record is a JSON object; keys may be missing.  A
\* mapping is the sequence of its <<key, value>> pairs in iteration order.
JsonRecords ==
  { << >>,
    [full_text |-> "hello",
     document_metadata |-> << <<"a", "1">>, <<"b", "2">> >>,
     entities |-> << >>],
    [full_text |-> "bye"] }

\* json_data.get(key, default)
Get(r, key, default) == IF key \in DOMAIN r THEN r[key] ELSE default

RECURSIVE JoinItemsBare(_)
JoinItemsBare(items) ==
  IF Len(items) <= 1 THEN items
  ELSE << Head(items), "," >> \o JoinItemsBare(Tail(items))

RECURSIVE JoinItems(_)
JoinItems(items) ==
  IF Len(items) <= 1 THEN items
  ELSE << Head(items), ", " >> \o JoinItems(Tail(items))

\* One line per entity type whose value is not empty; a list is joined with
\* ", ".  An entity is <<type, [list, items]>>.
RECURSIVE EntityLines(_)
EntityLines(entities) ==
  IF entities = << >> THEN << >>
  ELSE LET e == Head(entities) IN
       (IF e[2].items = << >> THEN << >>
        ELSE << << e[1], ": " >> \o
                (IF e[2].list THEN JoinItems(e[2].items) ELSE e[2].items) >>)
       \o EntityLines(Tail(entities))

\* The lines download_one writes, joined with newlines.
Render(r) ==
  LET full_text == Get(r, "full_text", "")
      metadata  == Get(r, "document_metadata", << >>)
      entities  == Get(r, "entities", << >>)
  IN  << <<"=====">>, <<"DOCUMENT METADATA">>, <<"=====">> >>
      \o [i \in 1..Len(metadata) |-> << metadata[i][1], ": ", metadata[i][2] >>]
      \o (IF entities # << >>
          THEN << <<"", "-----">>, <<"ENTITIES">>, <<"-----">> >> \o EntityLines(entities)
          ELSE << >>)
      \o << <<"", "=====">>, <<"FULL TEXT">>, <<"=====">>, << full_text >> >>

\* ---------------------------------------------------------- download_all_github
Queued == [pc |-> None, rec |-> << >>, result |-> None, fault |-> None]

NoWorkers == [i \in 1..MaxRecords |-> Queued]

CurFolder == folderIdx

\* asked: the folders listed; failed: the listing calls that failed; held:
\* how the listing of the folder that holds records ended.
NoCalls == [asked |-> 0, failed |-> 0, held |-> None, side |-> 0]

\* get_json(api_url) of a folder that answers: the list of its entries.
ListingOf(folder) == IF folder = gh_remote.folder THEN gh_remote.names ELSE << >>

Dest(i) == TxtName(json_files[i])

\* dest_path.exists()
DestExists(dest) == gh_fs[dest] # << >>

Running == { i \in 1..Len(json_files) : w[i].pc \in { "fetch", "write" } }

\* analyses.json is there with its whole content.
AnalysesUsable == analyses \in AnalysesSizes

\* analyses_path.exists()
AnalysesExists == analyses # Absent

GH_Start ==
  /\ cmd = "gh" /\ pc = "idle"
  /\ prevRun' = IF returned = << >> THEN None
                ELSE IF /\ returned[1].failed = 0
                        /\ gh_calls.failed = 0
                     THEN "clean"
                ELSE "failures"
  /\ returned' = << >>
  /\ gh_fs0' = gh_fs
  /\ gh_total' = Zero
  /\ gh_stats' = Zero
  /\ folderIdx' = 1
  /\ json_files' = << >>
  /\ w' = NoWorkers
  /\ collected' = { }
  /\ gh_calls' = [NoCalls EXCEPT !.side = IF AnalysesExists THEN 0 ELSE 1]
  /\ IF ~AnalysesExists
     THEN \E c \in AnalysesSizes : \E r \in DownloadFile(analyses, c) :
            /\ r.ok \/ MaxFailures > 0
            /\ analyses' = r.file
            /\ gh_faults' = IF r.ok THEN 0 ELSE 1
            /\ pc' = IF r.raised THEN "crashed" ELSE "gh_list"
     ELSE /\ pc' = "gh_list"
          /\ gh_faults' = 0
          /\ UNCHANGED analyses
  /\ UNCHANGED << cmd, max_workers, gh_remote, gh_fs, ia_vars, ex_vars, se_vars >>

\* data = get_json(api_url); if not data or not isinstance(data, list):
\* return zeros.  Otherwise the pool gets one download_one call per record.
ListFolder(mw) ==
  /\ pc = "gh_list" /\ folderIdx <= NumFolders
  /\ max_workers' = mw
  /\ \E res \in { "ok", "failed", "notlist" } :
       /\ res # "ok" => gh_faults < MaxFailures
       /\ gh_faults' = IF res = "ok" THEN gh_faults ELSE gh_faults + 1
       /\ gh_calls' = [asked  |-> gh_calls.asked + 1,
                       side   |-> gh_calls.side,
                       failed |-> gh_calls.failed + (IF res = "ok" THEN 0 ELSE 1),
                       held   |-> IF CurFolder = gh_remote.folder THEN res
                                  ELSE gh_calls.held]
       /\ IF res = "ok" /\ ListingOf(CurFolder) # << >>
          THEN /\ pc' = "gh_pool"
               /\ json_files' = SelectSeq(ListingOf(CurFolder), EndsWithJson)
               /\ gh_stats' = Zero
               /\ w' = [i \in 1..MaxRecords |->
                          IF i <= Len(json_files') THEN [Queued EXCEPT !.pc = "queued"]
                          ELSE Queued]
               /\ collected' = { }
               /\ UNCHANGED << folderIdx, gh_total >>
          ELSE /\ folderIdx' = folderIdx + 1
               /\ UNCHANGED << pc, json_files, gh_stats, w, collected, gh_total >>
  /\ UNCHANGED << cmd, returned, prevRun, gh_remote, analyses, gh_fs, gh_fs0,
                  ia_vars, ex_vars, se_vars >>

\* stats = download_github_folder(folder, dest_dir / folder): max_workers
\* takes its default.
GH_List == cmd = "gh" /\ ListFolder(MaxWorkers)

\* The executor starts a queued call whatever the number of calls running.
W_CheckUnbounded(i) ==
  /\ pc = "gh_pool" /\ i <= Len(json_files)
  /\ w[i].pc = "queued"
  /\ w' = [w EXCEPT ![i] = IF DestExists(Dest(i))
                           THEN [@ EXCEPT !.pc = "done", !.result = "skipped"]
                           ELSE [@ EXCEPT !.pc = "fetch"]]
  /\ UNCHANGED << cmd, max_workers, pc, returned, prevRun, gh_remote, analyses, gh_fs,
                  folderIdx, json_files, collected, gh_stats, gh_total, gh_faults,
                  gh_calls, gh_fs0, ia_vars, ex_vars, se_vars >>

\* A pool thread takes the call: if dest_path.exists(): return "skipped".
W_Check(i) ==
  /\ pc = "gh_pool" /\ i <= Len(json_files)
  /\ w[i].pc = "queued"
  /\ Cardinality(Running) < max_workers
  /\ w' = [w EXCEPT ![i] = IF DestExists(Dest(i))
                           THEN [@ EXCEPT !.pc = "done", !.result = "skipped"]
                           ELSE [@ EXCEPT !.pc = "fetch"]]
  /\ UNCHANGED << cmd, max_workers, pc, returned, prevRun, gh_remote, analyses, gh_fs, folderIdx,
                  json_files, collected, gh_stats, gh_total, gh_faults, gh_calls,
                  gh_fs0, ia_vars, ex_vars, se_vars >>

\* json_data = get_json(file_info["download_url"]); if not json_data:
\* return "failed"
W_Fetch(i) ==
  /\ pc = "gh_pool" /\ i <= Len(json_files)
  /\ w[i].pc = "fetch"
  /\ \/ /\ gh_faults < MaxFailures
        /\ gh_faults' = gh_faults + 1
        /\ w' = [w EXCEPT ![i] = [@ EXCEPT !.pc = "done", !.result = "failed",
                                           !.fault = "fetch"]]
     \/ /\ \E r \in JsonRecords :
             w' = [w EXCEPT ![i] =
                     IF r = << >>
                     THEN [@ EXCEPT !.pc = "done", !.result = "failed"]
                     ELSE [@ EXCEPT !.pc = "write", !.rec = r]]
        /\ UNCHANGED gh_faults
  /\ UNCHANGED << cmd, max_workers, pc, returned, prevRun, gh_remote, analyses, gh_fs, folderIdx,
                  json_files, collected, gh_stats, gh_total, gh_calls, gh_fs0,
                  ia_vars, ex_vars, se_vars >>

\* The lines are built, then mkdir, open(dest_path, 'w') and one write; an
\* exception on the way returns "failed", after the open it leaves the file
\* empty.
W_Write(i) ==
  /\ pc = "gh_pool" /\ i <= Len(json_files)
  /\ w[i].pc = "write"
  /\ \E wr \in { "ok", "open", "write" } :
       /\ wr # "ok" => gh_faults < MaxFailures
       /\ gh_faults' = IF wr = "ok" THEN gh_faults ELSE gh_faults + 1
       /\ gh_fs' = [gh_fs EXCEPT ![Dest(i)] =
                      IF wr = "ok" THEN << Render(w[i].rec) >>
                      ELSE IF wr = "write" THEN << << >> >>
                      ELSE @]
       /\ w' = [w EXCEPT ![i] =
                  IF wr = "ok" THEN [@ EXCEPT !.pc = "done", !.result = "downloaded"]
                  ELSE [@ EXCEPT !.pc = "done", !.result = "failed", !.fault = wr]]
  /\ UNCHANGED << cmd, max_workers, pc, returned, prevRun, gh_remote, analyses, folderIdx,
                  json_files, collected, gh_stats, gh_total, gh_calls, gh_fs0,
                  ia_vars, ex_vars, se_vars >>

\* The results of all finished calls are taken at once and one increment is
\* kept.
M_CollectLossy(i) ==
  /\ pc = "gh_pool" /\ i <= Len(json_files)
  /\ w[i].pc = "done" /\ i \notin collected
  /\ collected' = collected \cup { j \in 1..Len(json_files) : w[j].pc = "done" }
  /\ gh_stats' = Bump(gh_stats, w[i].result)
  /\ UNCHANGED << cmd, max_workers, pc, returned, prevRun, gh_remote, analyses, gh_fs,
                  folderIdx, json_files, w, gh_total, gh_faults, gh_calls, gh_fs0,
                  ia_vars, ex_vars, se_vars >>

\* for future in as_completed(futures): stats[future.result()] += 1
M_Collect(i) ==
  /\ pc = "gh_pool" /\ i <= Len(json_files)
  /\ w[i].pc = "done" /\ i \notin collected
  /\ collected' = collected \cup { i }
  /\ gh_stats' = Bump(gh_stats, w[i].result)
  /\ UNCHANGED << cmd, max_workers, pc, returned, prevRun, gh_remote, analyses, gh_fs, folderIdx,
                  json_files, w, gh_total, gh_faults, gh_calls, gh_fs0,
                  ia_vars, ex_vars, se_vars >>

\* download_github_folder returns without waiting for the calls of its pool.
GH_FolderDoneEarly ==
  /\ pc = "gh_pool"
  /\ gh_total' = AddStats(gh_total, gh_stats)
  /\ folderIdx' = folderIdx + 1
  /\ pc' = "gh_list"
  /\ UNCHANGED << cmd, max_workers, returned, prevRun, gh_remote, analyses, gh_fs,
                  json_files, w, collected, gh_stats, gh_faults, gh_calls, gh_fs0,
                  ia_vars, ex_vars, se_vars >>

\* The with-block ends, download_github_folder returns stats and
\* download_all_github adds them to its total, sleeps, takes the next folder.
GH_FolderDone ==
  /\ pc = "gh_pool"
  /\ collected = 1..Len(json_files)
  /\ gh_total' = AddStats(gh_total, gh_stats)
  /\ folderIdx' = folderIdx + 1
  /\ pc' = "gh_list"
  /\ UNCHANGED << cmd, max_workers, returned, prevRun, gh_remote, analyses, gh_fs, json_files, w,
                  collected, gh_stats, gh_faults, gh_calls, gh_fs0, ia_vars, ex_vars, se_vars >>

GH_Return ==
  /\ cmd = "gh"
  /\ pc = "gh_list" /\ folderIdx > NumFolders
  /\ pc' = "idle"
  /\ returned' = << gh_total >>
  /\ gh_fs0' = gh_fs
  /\ UNCHANGED << cmd, max_workers, prevRun, gh_remote, analyses, gh_fs, folderIdx, json_files, w,
                  collected, gh_stats, gh_total, gh_faults, gh_calls, ia_vars, ex_vars, se_vars >>

NextGH ==
  \/ GH_Start \/ GH_List \/ GH_FolderDone \/ GH_Return
  \/ \E i \in 1..MaxRecords : W_Check(i) \/ W_Fetch(i) \/ W_Write(i) \/ M_Collect(i)

\* ------------------------------------ download_github_folder called by itself
\* The arguments of a call of download_github_folder(folder, dest_dir,
\* max_workers): a folder without records and the one that holds them, and a
\* pool no larger than a listing.
FolderArgs == { 1 } \cup PopulatedFolders

PoolSizes == 1..MaxRecords

DF_Call ==
  /\ cmd = "folder" /\ pc = "idle"
  /\ \E f \in FolderArgs : folderIdx' = f
  /\ returned' = << >>
  /\ gh_fs0' = gh_fs
  /\ gh_total' = Zero
  /\ gh_stats' = Zero
  /\ json_files' = << >>
  /\ w' = NoWorkers
  /\ collected' = { }
  /\ gh_calls' = NoCalls
  /\ gh_faults' = 0
  /\ pc' = "gh_list"
  /\ UNCHANGED << cmd, max_workers, prevRun, gh_remote, analyses, gh_fs,
                  ia_vars, ex_vars, se_vars >>

\* data = get_json(api_url) of the one folder of the call.
DF_List ==
  /\ cmd = "folder" /\ gh_calls.asked = 0
  /\ \E mw \in PoolSizes : ListFolder(mw)

\* return stats
DF_Return ==
  /\ cmd = "folder"
  /\ pc = "gh_list" /\ gh_calls.asked = 1
  /\ pc' = "idle"
  /\ returned' = << gh_total >>
  /\ gh_fs0' = gh_fs
  /\ UNCHANGED << cmd, max_workers, prevRun, gh_remote, analyses, gh_fs, folderIdx,
                  json_files, w, collected, gh_stats, gh_total, gh_faults, gh_calls,
                  ia_vars, ex_vars, se_vars >>

NextPool == NextGH \/ DF_Call \/ DF_List \/ DF_Return

\* ------------------------------------------------------------------ search_all
\* matches.append((i + 1, line.strip()[:100]))
SnippetLen == 100

\* "matches": matches[:5]
MaxMatches == 5

\* A text is a sequence of characters; "\n" ends a line.
Rep(ch, n) == [i \in 1..n |-> ch]

\* str.lower() on the characters of the texts.
LowerChar(ch) == IF ch = "A" THEN "a" ELSE IF ch = "B" THEN "b" ELSE ch

Lower(s) == [i \in 1..Len(s) |-> LowerChar(s[i])]

\* needle in hay, for a needle that is not empty
Contains(hay, needle) ==
  \E i \in 0..(Len(hay) - Len(needle)) : SubSeq(hay, i + 1, i + Len(needle)) = needle

\* content.split('\n'): the lines, one more than the newlines.
RECURSIVE Split(_)
Split(s) ==
  IF \A i \in 1..Len(s) : s[i] # "\n" THEN << s >>
  ELSE LET n == CHOOSE i \in 1..Len(s) : s[i] = "\n" /\ \A j \in 1..(i - 1) : s[j] # "\n"
       IN  << SubSeq(s, 1, n - 1) >> \o Split(SubSeq(s, n + 1, Len(s)))

IsSpace(ch) == ch \in { " ", "\r", "\t" }

\* line.strip()
RECURSIVE Strip(_)
Strip(line) ==
  IF line = << >> THEN line
  ELSE IF IsSpace(Head(line)) THEN Strip(Tail(line))
  ELSE IF IsSpace(line[Len(line)]) THEN Strip(SubSeq(line, 1, Len(line) - 1))
  ELSE line

\* line.strip()[:100]
Snippet(line) == Take(Strip(line), SnippetLen)

MatchesInZeroBased(term, content) ==
  LET rows == Split(content)
      hits  == SelectSeq([i \in 1..Len(rows) |-> i],
                         LAMBDA i : Contains(Lower(rows[i]), Lower(term)))
  IN  [j \in 1..Len(hits) |-> << hits[j] - 1, Snippet(rows[hits[j]]) >>]

\* The (i + 1, snippet) pairs of the lines that hold the term, in line order.
MatchesIn(term, content) ==
  LET rows == Split(content)
      hits  == SelectSeq([i \in 1..Len(rows) |-> i],
                         LAMBDA i : Contains(Lower(rows[i]), Lower(term)))
  IN  [j \in 1..Len(hits) |-> << hits[j], Snippet(rows[hits[j]]) >>]

\* What one text file adds to results.
SearchFile(term, path, content) ==
  IF Contains(Lower(content), Lower(term))
  THEN << [file |-> path, matches |-> Take(MatchesIn(term, content), MaxMatches)] >>
  ELSE << >>

\* args.search: a term that is not empty (an empty one does not reach
\* search_all).
SearchTerms == { << "a", "b" >>, << "A", "B" >>, << "a", "\n", "b" >> }

Hit == << "x", "A", "b" >>
Miss == << "b", "a" >>
Padded == << " ", "a", "B", "\t" >>
Long == Rep("x", SnippetLen - 1) \o << "a", "b" >>

RECURSIVE JoinLines(_)
JoinLines(ls) ==
  IF Len(ls) = 0 THEN << >>
  ELSE IF Len(ls) = 1 THEN ls[1]
  ELSE ls[1] \o << "\n" >> \o JoinLines(Tail(ls))

RECURSIVE LineSeqs(_)
LineSeqs(n) ==
  IF n = 0 THEN { << >> }
  ELSE LET shorter == LineSeqs(n - 1) IN
       shorter \cup { Append(ls, l) : ls \in { x \in shorter : Len(x) = n - 1 },
                                      l \in { Hit, Miss, Padded } }

\* What a text file can hold when it is read: every text of at most MaxLines
\* lines, and texts with a long line, with the term first on line 5, and
\* with seven lines that hold it.
Contents ==
  { JoinLines(ls) : ls \in LineSeqs(MaxLines) }
  \cup { JoinLines(<< Miss, Long >>),
         JoinLines(<< Miss, Miss, << >>, Miss, Hit >>),
         JoinLines(<< Hit, Padded, Miss, Hit, Hit, Hit, Hit, Hit >>) }

\* The files under the two search roots, in the order the walks yield them.
CorpusFiles ==
  << << "documents/github_ocr", "a", ".txt" >>,
     << "extracted_text", "finds", ".json" >>,
     << "extracted_text", "a", ".txt" >> >>

\* rglob("*.txt")
IsTxt(path) == path[3] = ".txt"

SE_Start ==
  /\ cmd = "search" /\ pc = "idle"
  /\ s_term' \in SearchTerms
  /\ \E tree \in SUBSET Range(CorpusFiles) :
       s_files' = SelectSeq(CorpusFiles, LAMBDA p : p \in tree /\ IsTxt(p))
  /\ s_idx' = 1
  /\ results' = << >>
  /\ s_log' = << >>
  /\ pc' = "s_scan"
  /\ UNCHANGED << cmd, returned, prevRun, json_data, lines, ia_vars, ex_vars, gh_vars >>

\* One text file of the walk: open, read, scan; an exception skips the file.
SE_Scan ==
  /\ pc = "s_scan" /\ s_idx <= Len(s_files)
  /\ \E content \in Contents, read \in BOOLEAN :
       /\ results' = IF read THEN results \o SearchFile(s_term, s_files[s_idx], content)
                     ELSE results
       /\ s_log' = Append(s_log, [file |-> s_files[s_idx], read |-> read,
                                  content |-> content])
  /\ s_idx' = s_idx + 1
  /\ UNCHANGED << cmd, pc, returned, prevRun, s_term, s_files, json_data, lines,
                  ia_vars, ex_vars, gh_vars >>

\* The walks are over: the results are printed.
SE_Finish ==
  /\ pc = "s_scan" /\ s_idx > Len(s_files)
  /\ pc' = "idle"
  /\ UNCHANGED << cmd, returned, prevRun, se_vars, ia_vars, ex_vars, gh_vars >>

NextSearch == SE_Start \/ SE_Scan \/ SE_Finish

\* ------------------------------------------- download_one: the normalizer
\* The values an entity type can have: a list (empty or not) or a scalar
\* (an empty string is falsy).
EntityEntries ==
  { << "names", [list |-> TRUE, items |-> << "Alice", "Bob" >>] >>,
    << "places", [list |-> TRUE, items |-> << "Zed" >>] >>,
    << "orgs", [list |-> TRUE, items |-> << >>] >>,
    << "date", [list |-> FALSE, items |-> << "1999" >>] >>,
    << "note", [list |-> FALSE, items |-> << >>] >> }

RECURSIVE EntityMaps(_)
EntityMaps(n) ==
  IF n = 0 THEN { << >> }
  ELSE LET shorter == EntityMaps(n - 1) IN
       shorter \cup { Append(m, e) : m \in { x \in shorter : Len(x) = n - 1 },
                                     e \in EntityEntries }

MetadataMaps ==
  { << >>, << << "a", "1" >> >>, << << "a", "1" >>, << "b", "2" >> >>,
    << << "b", "2" >>, << "a", "1" >> >> }

\* A JSON object with the keys that are given (<<v>>) and without those
\* that are not (<<>>).
RecordOf(ft, md, en) ==
  [k \in { x \in { "full_text", "document_metadata", "entities" } :
             \/ x = "full_text" /\ ft # << >>
             \/ x = "document_metadata" /\ md # << >>
             \/ x = "entities" /\ en # << >> } |->
     IF k = "full_text" THEN ft[1]
     ELSE IF k = "document_metadata" THEN md[1]
     ELSE en[1]]

Optional(S) == { << >> } \cup { << x >> : x \in S }

\* The records the rendering is enumerated for: every combination of
\* missing, empty and filled parts, with mappings in both key orders and no
\* entity type twice.
RenderedRecords ==
  { RecordOf(ft, md, en) :
      ft \in Optional({ "", "hello" }),
      md \in Optional(MetadataMaps),
      en \in Optional({ m \in EntityMaps(MaxEntities) :
                          \A i, j \in 1..Len(m) : i # j => m[i][1] # m[j][1] }) }

\* json_data passed 'if not json_data': lines 242-268 build the lines.
N_Render ==
  /\ cmd = "normalize" /\ pc = "idle"
  /\ lines' = Render(json_data)
  /\ pc' = "rendered"
  /\ UNCHANGED << cmd, returned, prevRun, json_data, s_term, s_files, s_idx, results,
                  s_log, ia_vars, ex_vars, gh_vars >>

\* The next record get_json returns to a download_one call.
N_Fetch ==
  /\ cmd = "normalize" /\ pc = "rendered"
  /\ json_data' \in RenderedRecords \ { << >> }
  /\ lines' = << >>
  /\ pc' = "idle"
  /\ UNCHANGED << cmd, returned, prevRun, s_term, s_files, s_idx, results,
                  s_log, ia_vars, ex_vars, gh_vars >>

NextNormalize == N_Render \/ N_Fetch

\* ------------------------------------------------------------ specification
InitState ==
  /\ pc = "idle"
  /\ \E p \in (IF cmd = "ia" THEN Placements ELSE { << >> }) :
       remote = [k \in Keys |-> ManifestOf(p, k)]
  /\ ia_fs = [d \in IA_Paths |-> Absent]
  /\ srcIdx = 1
  /\ pdf_files = <<>>
  /\ itemIdx = 1
  /\ stats = Zero
  /\ total = Zero
  /\ returned = <<>>
  /\ calls = <<>>
  /\ fetched = NoOutcomes
  /\ outcome = NoOutcomes
  /\ prevRun = None
  /\ pymupdf = TRUE
  /\ pdf_dir = FALSE
  /\ pdf_tree = { }
  /\ ex_fs = [st \in Stems |-> << >>]
  /\ report = << >>
  /\ pdfs = << >>
  /\ exIdx = 1
  /\ ex_stats = ZeroEx
  /\ finds = << >>
  /\ ex_log = NoLog
  /\ ex_fs0 = [st \in Stems |-> << >>]
  /\ \E f \in PopulatedFolders :
       \E names \in (IF cmd \in { "gh", "folder" } THEN Listings ELSE { << >> }) :
         /\ cmd \notin { "gh", "folder" } => f = 2
         /\ gh_remote = [folder |-> f, names |-> names]
  /\ analyses = Absent
  /\ gh_fs = [d \in TxtNames |-> << >>]
  /\ folderIdx = 1
  /\ json_files = << >>
  /\ max_workers = MaxWorkers
  /\ w = NoWorkers
  /\ collected = { }
  /\ gh_stats = Zero
  /\ gh_total = Zero
  /\ gh_faults = 0
  /\ gh_calls = NoCalls
  /\ gh_fs0 = [d \in TxtNames |-> << >>]
  /\ s_term = << >>
  /\ s_files = << >>
  /\ s_idx = 1
  /\ results = << >>
  /\ s_log = << >>
  /\ json_data \in (IF cmd = "normalize" THEN RenderedRecords \ { << >> }
                    ELSE { [full_text |-> ""] })
  /\ lines = << >>

Init == cmd \in { "ia", "gh", "ex" } /\ InitState

Next == NextIA \/ NextEX \/ NextGH

Spec == Init /\ [][Next]_vars

\* The invocations with --search.
InitSearch == cmd = "search" /\ InitState

SpecSearch == InitSearch /\ [][NextSearch]_vars

\* The download_one calls that got a record, one at a time.
\* The GitHub command by itself.
InitGH == cmd = "gh" /\ InitState

SpecGH == InitGH /\ [][NextGH]_vars

\* The GitHub command, and download_github_folder called with its arguments.
InitPool == cmd \in { "gh", "folder" } /\ InitState

SpecPool == InitPool /\ [][NextPool]_vars

\* The Internet Archive command in a process without the requests library.
InitUrllib == cmd = "ia" /\ InitState

SpecUrllib == InitUrllib /\ [][NextUrllib]_vars

\* The extraction command by itself.
InitEX == cmd = "ex" /\ InitState

SpecEX == InitEX /\ [][NextEX]_vars

InitNormalize == cmd = "normalize" /\ InitState

SpecNormalize == InitNormalize /\ [][NextNormalize]_vars

\* ==================================================================== claims
\* The eligible items of a source, as the run numbers them.
IA_Items(k) == FilterPdfs(remote[k])

IA_ItemIds == { id \in ItemIds : remote[id[1]] # << >> /\ id[2] <= Len(IA_Items(id[1])) }

IA_Item(id) == IA_Items(id[1])[id[2]]

\* The declared size the completeness check compares with (0 without one).
Declared(pdf) == IF pdf.size = NoSize THEN 0 ELSE pdf.size

IA_Returned == cmd = "ia" /\ pc = "idle" /\ returned # <<>>

\* The metadata call of source k was made in this run and answered.
Answered(k) == \E i \in 1..Len(calls) : calls[i].key = k /\ calls[i].ok

\* The metadata call of source k was made in this run and failed.
Refused(k) == \E i \in 1..Len(calls) : calls[i].key = k /\ ~calls[i].ok

GH_Items == 1..Len(json_files)

GH_Returned == cmd = "gh" /\ pc = "idle" /\ returned # <<>>

\* The batch of the folder that holds records has returned its stats.
GH_BatchReturned ==
  /\ cmd = "gh" /\ pc \in { "gh_list", "idle" }
  /\ gh_calls.held = "ok"
  /\ gh_remote.names # << >>

\* Every archive item that declares a size is served with a content less
\* than 1024 bytes away from it.
IA_DeclaredSizesTrue ==
  \A id \in IA_ItemIds :
    LET d == IA_Item(id).size
        c == IA_Item(id).content
    IN  d # NoSize => (IF c - d < 0 THEN d - c ELSE c - d) < 1024

\* C1 as stated, read in its favour: the run before answered every listing
\* and ended without a Failed outcome, the remote did not change and serves
\* what it declares.  Then the second run downloads nothing, and when it
\* returns every eligible item of a source that was listed is Skipped.
C1_Idempotence ==
  (prevRun = "clean" /\ IA_DeclaredSizesTrue) =>
    /\ \A id \in ItemIds : outcome[id] # "downloaded"
    /\ \A i \in 1..MaxRecords : w[i].result # "downloaded"
    /\ IA_Returned =>
         \A id \in IA_ItemIds : Answered(id[1]) => outcome[id] = "skipped"

\* C2: in the archive orchestrator an item whose local file is missing, or
\* is there with a size 1024 bytes or more away from the declared size, is
\* fetched (download_file is called, the item is not counted Skipped); an
\* item whose local file is there with a size less than 1024 bytes away is
\* counted Skipped, no fetch is attempted and the file stays as it is.
C2_CompletenessTolerance ==
  [][ pc = "ia_item" =>
        LET cur == ia_fs[CurDest]
            d   == Declared(CurPdf)
            far == cur = Absent \/ (IF cur - d < 0 THEN d - cur ELSE cur - d) >= 1024
        IN  /\ far  => /\ fetched'[CurId] # None
                       /\ outcome'[CurId] \in { "downloaded", "failed" }
            /\ ~far => /\ outcome'[CurId] = "skipped"
                       /\ fetched'[CurId] = None
                       /\ ia_fs' = ia_fs ]_vars

\* C2 witness: a run after a clean run (so the file was there) fetched an
\* item again whose content is 1024 bytes larger than its declared size, and
\* skipped nothing it fetched.
C2_Witness ==
  /\ prevRun = "clean"
  /\ \E id \in IA_ItemIds :
       /\ IA_Item(id).size = 1024 /\ IA_Item(id).content = 2048
       /\ outcome[id] = "downloaded"
       /\ ia_fs[<< id[1], IA_Item(id).name >>] = 2048

\* C3 as stated: an item without a size field whose local file exists is
\* always counted Skipped, whatever the size of the file.
C3_Original ==
  [][ (pc = "ia_item" /\ CurPdf.size = NoSize /\ ia_fs[CurDest] # Absent)
        => outcome'[CurId] = "skipped" ]_vars

\* C4: a text file that is at its destination when a GitHub run or an
\* extraction run starts has, in every state of that run and after it, the
\* content it had at the start, whatever the remote record or the PDF holds.
C4_TextFilesImmutable ==
  /\ \A d \in TxtNames : gh_fs0[d] # << >> => gh_fs[d] = gh_fs0[d]
  /\ \A st \in Stems : ex_fs0[st] # << >> => ex_fs[st] = ex_fs0[st]

\* C4 witness: an extraction run met a.pdf whose text file a.txt was written
\* by an earlier run from a.PDF, skipped it and returned; a.txt still names
\* a.PDF as its source.
C4_Witness ==
  /\ cmd = "ex" /\ pc = "idle" /\ returned # << >>
  /\ \E i \in 1..Len(pdfs) :
       /\ pdfs[i] = << "a", "pdf" >>
       /\ ex_log[i].pass = "skipped"
  /\ ex_fs["a"] # << >>
  /\ ex_fs["a"][1].source = << "a", "PDF" >>

\* C5 as stated: when the batch of a folder has returned, every eligible
\* item has an outcome, every item none of whose calls failed is Downloaded
\* or Skipped with its text file in place, failed is the number of items a
\* call of which failed, and the three counts add up to the number of
\* eligible items.
C5_BatchIsolation ==
  GH_BatchReturned =>
    /\ \A i \in GH_Items : w[i].result # None
    /\ \A i \in GH_Items : w[i].fault = None =>
         /\ w[i].result \in { "downloaded", "skipped" }
         /\ gh_fs[Dest(i)] # << >>
    /\ gh_stats.failed = Cardinality({ i \in GH_Items : w[i].fault # None })
    /\ gh_stats.downloaded + gh_stats.skipped + gh_stats.failed = Len(json_files)

\* C6: no error of a fetch leaves download_file: the run never ends in an
\* uncaught exception, an item whose fetch ended in an error (network, HTTP
\* status or filesystem) is counted Failed, and when the run returns every
\* eligible item of a listed source has an outcome and the failures are in
\* the returned total.
C6_FetchNeverRaises ==
  /\ pc # "crashed"
  /\ \A id \in ItemIds :
       fetched[id] \notin { None, "ok" } => outcome[id] = "failed"
  /\ IA_Returned =>
       /\ \A id \in IA_ItemIds : Answered(id[1]) => outcome[id] # None
       /\ returned[1].failed >=
            Cardinality({ id \in ItemIds : fetched[id] \notin { None, "ok" } })

\* C6 witness: the fetch of the first item broke on the filesystem, the
\* item is counted Failed, and the second item of the source was downloaded.
C6_Witness ==
  /\ IA_Returned
  /\ \E k \in Keys :
       /\ fetched[<< k, 1 >>] = "OSError"
       /\ outcome[<< k, 1 >>] = "failed"
       /\ outcome[<< k, 2 >>] = "downloaded"
       /\ returned[1] = [downloaded |-> 1, skipped |-> 0, failed |-> 1]

\* C7 as stated: the extraction run never ends in an exception, and every
\* document whose text extraction failed is counted failed, not processed.
C7_ExtractionFailureCounted ==
  /\ pc # "crashed"
  /\ \A i \in 1..MaxPdfs :
       ex_log[i].extract = "error" => ex_log[i].pass = "failed"

ExpectedOrder ==
  << "black_book_v2", "phone_book", "giuffre_maxwell",
     "house_oversight_estate", "epstein_estate_alt" >>

\* C8: the metadata calls of a run are issued in ascending priority, ties in
\* declaration order; an item gets its outcome only after its source was
\* asked, and when a later source is asked every item of an earlier,
\* successfully listed source has its outcome.
C8_SourceOrder ==
  /\ Len(calls) <= Len(ExpectedOrder)
  /\ \A i \in 1..Len(calls) : calls[i].key = ExpectedOrder[i]
  /\ \A id \in ItemIds : outcome[id] # None => Answered(id[1])
  /\ \A id \in IA_ItemIds :
       (\E i \in 1..(Len(calls) - 1) : calls[i].key = id[1] /\ calls[i].ok)
         => outcome[id] # None

\* C8 witness: all five sources were asked, and phone_book (second, tied with
\* black_book_v2 at priority 0) had its items settled before the third call.
C8_Witness ==
  /\ Len(calls) = 5
  /\ \A i \in 1..5 : calls[i].key = ExpectedOrder[i]
  /\ outcome[<< "phone_book", 1 >>] = "downloaded"
  /\ outcome[<< "phone_book", 2 >>] # None

\* C9: when the metadata call of an archive source fails, none of its items
\* is fetched or gets an outcome; when the listing call of the GitHub folder
\* that holds records fails or answers something that is not a list, no
\* worker runs and no text file changes.  The run goes on: when it returns,
\* every source or folder was asked, the items of every source that answered
\* have their outcomes, and the total is returned.
C9_ListingFailureIsolated ==
  /\ \A id \in ItemIds : Refused(id[1]) =>
       fetched[id] = None /\ outcome[id] = None
  /\ IA_Returned =>
       /\ Len(calls) = Len(IA_SOURCES)
       /\ \A k \in Keys : Answered(k) \/ Refused(k)
       /\ \A id \in IA_ItemIds : Answered(id[1]) => outcome[id] # None
       /\ returned[1].failed >= Cardinality({ i \in 1..Len(calls) : ~calls[i].ok })
  /\ gh_calls.held \in { "failed", "notlist" } =>
       /\ json_files = << >>
       /\ \A i \in 1..MaxRecords : w[i].pc = None /\ w[i].result = None
       /\ gh_fs = gh_fs0
  /\ GH_Returned =>
       /\ gh_calls.asked = NumFolders
       /\ gh_calls.held = "ok" =>
            /\ \A i \in GH_Items : w[i].result # None
            /\ returned[1] = gh_stats

\* C9 witness: the metadata call of black_book_v2, the first source, failed;
\* the four later sources were asked, an item of phone_book was downloaded,
\* and the run returned one failure.
C9_Witness ==
  /\ IA_Returned
  /\ ~calls[1].ok /\ calls[1].key = "black_book_v2"
  /\ Len(calls) = 5
  /\ outcome[<< "phone_book", 1 >>] = "downloaded"
  /\ returned[1].failed = 1 /\ returned[1].downloaded >= 1

EntriesOf(path) == SelectSeq(finds, LAMBDA e : e.file = path)

FirstFive(seq) == SubSeq(seq, 1, IF Len(seq) < 5 THEN Len(seq) ELSE 5)

\* C10: a file the run extracted adds at most one entry to the findings:
\* the phone family with the first five phone matches when a phone-shaped
\* substring is in the text, the email family with the first five email
\* matches only when none is, and nothing when neither matches; a file that
\* was skipped or failed adds nothing.
C10_FirstFamilyOnly ==
  \A i \in 1..Len(pdfs) :
    LET text   == ex_log[i].text
        phones == FindAll(PhoneMatches, text)
        emails == FindAll(EmailMatches, text)
        es     == EntriesOf(pdfs[i])
    IN  IF ex_log[i].pass = "processed"
        THEN /\ Len(es) <= 1
             /\ phones # << >> =>
                  es = << [file |-> pdfs[i], type |-> "phone numbers",
                           samples |-> FirstFive(phones)] >>
             /\ (phones = << >> /\ emails # << >>) =>
                  es = << [file |-> pdfs[i], type |-> "emails",
                           samples |-> FirstFive(emails)] >>
             /\ (phones = << >> /\ emails = << >>) => es = << >>
        ELSE es = << >>

\* C10 witness: a processed file whose text starts with an email address and
\* holds six phone numbers after it has one entry, of the phone family, with
\* five samples.
C10_Witness ==
  \E i \in 1..Len(pdfs) :
    /\ ex_log[i].pass = "processed"
    /\ \E j \in 1..Len(ex_log[i].text) : ex_log[i].text[j] = "a@b.co"
    /\ Len(FindAll(PhoneMatches, ex_log[i].text)) = 6
    /\ EntriesOf(pdfs[i]) # << >>
    /\ EntriesOf(pdfs[i])[1].type = "phone numbers"
    /\ Len(EntriesOf(pdfs[i])[1].samples) = 5

SearchDone == cmd = "search" /\ pc = "idle" /\ s_log # << >>

ResultsOf(path) == SelectSeq(results, LAMBDA r : r.file = path)

\* The lines of a text that hold the term, by their 1-based numbers.
HitLines(term, content) ==
  { n \in 1..Len(Split(content)) : Contains(Lower(Split(content)[n]), Lower(term)) }

\* m is the list of the first (at most 5) lines that hold the term, in
\* ascending order, each with its number and Cut of its text.
FirstHits(m, term, content, Cut(_)) ==
  LET hits == HitLines(term, content) IN
    /\ Len(m) = (IF Cardinality(hits) < 5 THEN Cardinality(hits) ELSE 5)
    /\ \A j \in 1..Len(m) :
         /\ m[j][1] \in hits
         /\ Cardinality({ h \in hits : h < m[j][1] }) = j - 1
         /\ m[j][2] = Cut(Split(content)[m[j][1]])

First100(line) == SubSeq(line, 1, IF Len(line) < 100 THEN Len(line) ELSE 100)

Stripped100(line) == First100(Strip(line))

\* C11 as stated: when the search is over, a text file of the walk is in the
\* results iff its content holds the term case-insensitively, and its
\* matches are the first (at most 5) lines that hold it, in ascending
\* order, each with its 1-based number and its text cut to 100 characters.
C11_Original ==
  SearchDone =>
    \A i \in 1..Len(s_log) :
      LET rs == ResultsOf(s_log[i].file) IN
        /\ rs # << >> <=> Contains(Lower(s_log[i].content), Lower(s_term))
        /\ rs # << >> => FirstHits(rs[1].matches, s_term, s_log[i].content, First100)

\* C11 amended: a text file that could be read is in the results, once, iff
\* its content holds the term case-insensitively, and its matches are the
\* first (at most 5) lines that hold it, in ascending order, each with its
\* 1-based number and its text stripped of leading and trailing whitespace
\* and then cut to 100 characters; a file that could not be read is not in
\* the results, and the results follow the order of the walk.
C11_Search ==
  /\ \A i \in 1..Len(s_log) :
       LET rs == ResultsOf(s_log[i].file) IN
         /\ Len(rs) <= 1
         /\ rs # << >> <=>
              (s_log[i].read /\ Contains(Lower(s_log[i].content), Lower(s_term)))
         /\ rs # << >> => FirstHits(rs[1].matches, s_term, s_log[i].content, Stripped100)
  /\ \A j \in 1..Len(results) :
       /\ \E i \in 1..Len(s_log) : s_log[i].file = results[j].file
       /\ \A k \in (j + 1)..Len(results) :
            \E a, b \in 1..Len(s_log) :
              a < b /\ s_log[a].file = results[j].file /\ s_log[b].file = results[k].file

\* C11 witness: the search is over; a file whose first four lines do not
\* hold the term and whose line 5 is "xAb" was found for the term "ab" with
\* one match, at line 5, and the file after it, with seven lines that hold
\* the term, has the first five of them.
C11_Witness ==
  /\ SearchDone /\ s_term = << "a", "b" >>
  /\ Len(results) = 2
  /\ results[1].matches = << << 5, << "x", "A", "b" >> >> >>
  /\ Len(results[2].matches) = 5
  /\ results[2].matches[2] = << 2, << "a", "B" >> >>
  /\ results[2].matches[5][1] = 6

\* C12 as stated: a record that was fetched, whatever keys it lacks, is
\* rendered and written and its outcome is Downloaded, never Failed: an
\* item none of whose calls failed is not counted Failed, and a Downloaded
\* item has its text file.
C12_MissingKeysDefault ==
  \A i \in 1..MaxRecords :
    /\ w[i].fault = None => w[i].result # "failed"
    /\ w[i].result = "downloaded" => gh_fs[TxtName(json_files[i])] # << >>

\* The part of a record under a key, d when the key is missing.
Part(r, key, d) == IF key \in DOMAIN r THEN r[key] ELSE d

\* The items of a list with ", " between them.
CommaJoined(items) ==
  [i \in 1..(2 * Len(items) - 1) |-> IF i % 2 = 1 THEN items[(i + 1) \div 2] ELSE ", "]

\* The line of an entity type with a value that is not empty.
EntityLine(e) ==
  << e[1], ": " >> \o (IF e[2].list THEN CommaJoined(e[2].items) ELSE e[2].items)

\* C13: the lines built from a record are the DOCUMENT METADATA header, one
\* 'key: value' line per metadata pair in the mapping's order, then, only
\* when the entities mapping is not empty, the ENTITIES header and one line
\* per entity type whose value is not empty, in the mapping's order, a list
\* joined with ', ' and a scalar as it is, and last the FULL TEXT header and
\* full_text.
C13_Rendering ==
  pc = "rendered" =>
    LET md    == Part(json_data, "document_metadata", << >>)
        en    == Part(json_data, "entities", << >>)
        ft    == Part(json_data, "full_text", "")
        shown == SelectSeq(en, LAMBDA e : e[2].items # << >>)
        m     == 3 + Len(md)
        n     == m + (IF en # << >> THEN 3 + Len(shown) ELSE 0)
    IN  /\ Len(lines) = n + 4
        /\ SubSeq(lines, 1, 3) = << << "=====" >>, << "DOCUMENT METADATA" >>, << "=====" >> >>
        /\ \A j \in 1..Len(md) : lines[3 + j] = << md[j][1], ": ", md[j][2] >>
        /\ en = << >> => \A j \in 1..Len(lines) : lines[j] # << "ENTITIES" >>
        /\ en # << >> =>
             /\ SubSeq(lines, m + 1, m + 3) =
                  << << "", "-----" >>, << "ENTITIES" >>, << "-----" >> >>
             /\ \A j \in 1..Len(shown) : lines[m + 3 + j] = EntityLine(shown[j])
        /\ SubSeq(lines, n + 1, n + 4) =
             << << "", "=====" >>, << "FULL TEXT" >>, << "=====" >>, << ft >> >>

\* C13 witness: a record without full_text, with metadata b then a and the
\* entities names (a list of two) and orgs (an empty list) was rendered:
\* b before a, one entity line "names: Alice, Bob", none for orgs, and an
\* empty text after the FULL TEXT header.
C13_Witness ==
  /\ pc = "rendered"
  /\ DOMAIN json_data = { "document_metadata", "entities" }
  /\ lines = << << "=====" >>, << "DOCUMENT METADATA" >>, << "=====" >>,
                << "b", ": ", "2" >>, << "a", ": ", "1" >>,
                << "", "-----" >>, << "ENTITIES" >>, << "-----" >>,
                << "names", ": ", "Alice", ", ", "Bob" >>,
                << "", "=====" >>, << "FULL TEXT" >>, << "=====" >>, << "" >> >>
  /\ Len(json_data.entities) = 2

\* C14: no operation blocks indefinitely: every network call, on the
\* requests path and on the urllib path, carries a timeout, so a run never
\* stays inside a call that does not return.
C14_NoCallBlocks == pc # "blocked"

\* C15: the record names of a listing being pairwise distinct, the
\* destinations of the eligible items of a batch are pairwise distinct, and
\* no two workers of the batch are writing the same file.
C15_DisjointDestinations ==
  \A i, j \in 1..Len(json_files) :
    i # j =>
      /\ Dest(i) # Dest(j)
      /\ ~(w[i].pc = "write" /\ w[j].pc = "write" /\ Dest(i) = Dest(j))

\* C18: at every moment of a download_github_folder batch the number of
\* download_one calls in flight is at most max_workers, and max_workers is
\* 10 in every batch that download_all_github starts.
C18_BoundedPool ==
  pc = "gh_pool" =>
    /\ Cardinality(Running) <= max_workers
    /\ cmd = "gh" => max_workers = 10

\* C18 witness: a pool of one thread runs one call of a batch of two while
\* the other call waits in the queue.
C18_Witness ==
  /\ pc = "gh_pool" /\ max_workers = 1
  /\ Len(json_files) = 2
  /\ Cardinality(Running) = 1
  /\ \E i \in 1..2 : w[i].pc = "queued"

\* The number of collected calls of the batch that ended with outcome k.
Collected(ws, done, k) == Cardinality({ i \in done : ws[i].result = k })

C16_Step ==
  pc' = "gh_pool" =>
    /\ collected' \subseteq { i \in 1..Len(json_files') : w'[i].pc = "done" }
    /\ \A k \in { "downloaded", "skipped", "failed" } :
         gh_stats'[k] = Collected(w', collected', k)
    /\ (pc = "gh_pool" /\ w' # w) => gh_stats' = gh_stats
    /\ (pc = "gh_pool" /\ gh_stats' # gh_stats) =>
         \E i \in 1..Len(json_files) :
           /\ collected' = collected \cup { i } /\ i \notin collected
           /\ gh_stats' = Bump(gh_stats, w[i].result)

\* C16: in a download_github_folder batch no step of a worker changes the
\* counters; they change only when the collector takes the result of one
\* finished call, by one increment of the counter of that result, so that
\* under every interleaving each counter is the number of collected calls
\* with that outcome: no increment is lost and none is made twice.
C16_SingleCollector == [][C16_Step]_vars

\* C16 witness: both calls of a batch of two were collected, one downloaded
\* and one failed, and the counters are 1, 0 and 1.
C16_Witness ==
  /\ pc = "gh_pool" /\ Len(json_files) = 2
  /\ collected = { 1, 2 }
  /\ { w[1].result, w[2].result } = { "downloaded", "failed" }
  /\ gh_stats = [downloaded |-> 1, skipped |-> 0, failed |-> 1]

\* The step is a listing call of download_github_folder.
Listed == gh_calls'.asked = gh_calls.asked + 1

C17_Step ==
  /\ Listed =>
       /\ folderIdx = gh_calls'.asked /\ folderIdx \in 1..NumFolders
       /\ \A i \in 1..Len(json_files) : w[i].pc = "done" /\ i \in collected
       /\ gh_total = gh_stats
  /\ folderIdx' # folderIdx =>
       /\ Running = { } /\ Running' = { }
       /\ folderIdx' = folderIdx + 1 \/ (pc = "idle" /\ folderIdx' = 1)
  /\ (pc = "gh_list" /\ pc' = "idle") => gh_calls.asked = NumFolders

\* C17: download_all_github lists the folders in the order of
\* GITHUB_FOLDERS, the k-th listing call being that of the k-th folder, and
\* returns after the twelfth; when a listing call is issued every call of
\* the batch before it has ended and been collected and its stats are in
\* the total (one folder holds records, so the total is that batch's
\* stats); the folder changes only while no worker runs.
C17_FolderSequencing == [][C17_Step]_vars

\* C17 witness: the third folder has just been listed, after the batch of
\* two records of the second folder, both downloaded and in the total.
C17_Witness ==
  /\ pc = "gh_list" /\ gh_calls.asked = 3 /\ folderIdx = 4
  /\ Len(json_files) = 2 /\ collected = { 1, 2 }
  /\ gh_total.downloaded = 2

\* The step starts a run of download_all_github.
GH_Started == cmd = "gh" /\ pc = "idle" /\ pc' # "idle"

C20_Step ==
  /\ GH_Started =>
       /\ analyses # Absent => gh_calls'.side = 0 /\ analyses' = analyses
       /\ analyses = Absent => gh_calls'.side = 1
       /\ gh_calls'.asked = 0
       /\ pc' = "gh_list" /\ folderIdx' = 1
  /\ ~GH_Started =>
       /\ analyses' = analyses
       /\ pc' # "idle" => gh_calls'.side = gh_calls.side
  /\ (pc = "gh_list" /\ pc' = "idle") => gh_calls.asked = NumFolders

\* C20: a run of download_all_github that finds analyses.json on disk,
\* whatever its size, makes no fetch of it and leaves it as it is; a run
\* that finds none makes one fetch of it, before any listing call, and none
\* later; whether that fetch succeeds or fails the run goes on to the first
\* folder and returns after the twelfth listing call.
C20_SideCar == [][C20_Step]_vars

\* C20 witness: a run found a truncated analyses.json on disk, made no fetch
\* of it and returned after twelve listing calls, the file still truncated.
C20_Witness ==
  /\ cmd = "gh" /\ pc = "idle" /\ returned # << >>
  /\ analyses \notin AnalysesSizes \cup { Absent }
  /\ gh_calls.side = 0 /\ gh_calls.asked = NumFolders

\* The findings of the files among the first n of the listing that this run
\* extracted, in the order of the listing.
RECURSIVE RunFindings(_)
RunFindings(n) ==
  IF n = 0 THEN << >>
  ELSE RunFindings(n - 1) \o
       (IF ex_log[n].pass = "processed" THEN Findings(pdfs[n], ex_log[n].text)
        ELSE << >>)

\* The step ends an extraction run that walked its listing.
EX_Ended == pc = "ex_loop" /\ pc' = "idle"

C19_Step ==
  /\ EX_Ended =>
       LET found == RunFindings(Len(pdfs))
       IN  IF found # << >> THEN report' = << found >> ELSE report' = report
  /\ ~EX_Ended => report' = report

\* C19: an extraction run that recorded a finding ends by replacing the
\* report with exactly the findings of the files it extracted, in the order
\* of its listing: the files it skipped add nothing and what the report held
\* before is gone; a run that recorded none leaves the report as it was;
\* the report changes at no other moment.
C19_ReportLifecycle == [][C19_Step]_vars

\* C19 witness: a later run skipped one file and extracted another; the
\* report holds the one finding of the extracted file and none of the
\* skipped file.
C19_Witness ==
  /\ cmd = "ex" /\ pc = "idle" /\ returned # << >> /\ prevRun # None
  /\ ex_stats.skipped = 1 /\ ex_stats.processed = 1
  /\ report # << >> /\ Len(report[1]) = 1
  /\ \E i \in 1..Len(pdfs) :
       /\ ex_log[i].pass = "skipped"
       /\ report[1][1].file # pdfs[i]
       /\ Findings(pdfs[i], ex_fs[pdfs[i][1]][1].text) # << >>

\* C21: whenever the outcome of a record in a download_github_folder batch
\* is Failed, no file exists at its derived .txt path afterwards.
C21_FailedLeavesNoFile ==
  \A i \in 1..Len(json_files) :
    (w[i].pc = "done" /\ w[i].result = "failed") => ~DestExists(Dest(i))

====
